---- MODULE Spec2Model ----
(***************************************************************************)
(* Text-analysis engine of the plagiarism / AI-detection backend:          *)
(*   app/ai_detection.py   AIDetector                                      *)
(*   app/preprocessing.py  TextPreprocessor                                *)
(*   app/similarity.py     SimilarityAnalyzer                              *)
(*   app/main.py           report store, analyze_similarity handler        *)
(*   app/file_handler.py   FileHandler                                     *)
(*                                                                         *)
(* A Python str is a sequence of one-character strings.  Scores are exact  *)
(* fractions <<n, d>> (d > 0).  Percentages rounded to one decimal are      *)
(* integers counting tenths of a percent (50.0 is 500).                    *)
(***************************************************************************)
EXTENDS Integers, Sequences, FiniteSets, TLC

VARIABLES
    pc,          \* "ready" before the call under analysis, "done" after it
    fn,          \* name of the function called
    text,        \* first argument of the call (a Python value)
    result,      \* record returned by AIDetector.analyze_text
    called,      \* scorers invoked by the analyze_text call
    components,  \* its locals pattern_score, structure_score, style_score
    score,       \* value returned by a direct call of one scorer
    probability, \* arguments of a direct _generate_message call
    confidence,
    message,     \* its return value
    text2,       \* second argument of a SimilarityAnalyzer call
    punkt_ok,    \* word_tokenize finds its data (it raises otherwise)
    wordnet_ok,  \* the lemmatizer finds its data (it raises otherwise)
    processed,   \* value returned by TextPreprocessor.preprocess
    similarity,  \* record returned by SimilarityAnalyzer.analyze
    raised,      \* the call let an exception out
    file,        \* REPORTS_FILE: whether it exists, the reports it holds
    lock,        \* thread inside 'with file_lock:', Free when none
    tpc,         \* position of each thread in save_report
    loaded,      \* each thread's local list returned by load_reports
    arg,         \* number of the save_report call each thread runs
    readFailed,  \* the read of the thread's current call failed
    saved,       \* calls that returned normally, in the order they returned
    calls,       \* save_report calls started so far
    faults,      \* failed reads so far
    overlapped,  \* a call started while another one was running
    request,     \* the analyze_similarity request
    uploads,     \* upload folder: content of each file it holds, by name
    response,    \* HTTP status of the response, 0 before it
    savedPaths,  \* paths save_file returned to the request
    store_ok     \* save_report of the request succeeds (it raises otherwise)

engineVars ==
    <<pc, fn, text, result, called, components, score, probability, confidence,
      message, text2, punkt_ok, wordnet_ok, processed, similarity, raised>>

reportVars ==
    <<file, lock, tpc, loaded, arg, readFailed, saved, calls, faults, overlapped>>

uploadVars == <<request, uploads, response, savedPaths, store_ok>>

vars == <<engineVars, reportVars, uploadVars>>

(***************************************************************************)
(* Bounds of the input families.                                           *)
(***************************************************************************)
MaxPhrases == 2   \* phrases concatenated to form a text
MaxRep == 2       \* times the concatenation is repeated
NumThreads == 2   \* threads that run request handlers
MaxCalls == 3     \* save_report calls in one behaviour
MaxFaults == 1    \* reads of the report file that fail in one behaviour

(***************************************************************************)
(* Characters and Python str primitives.                                   *)
(***************************************************************************)
LowerLetters ==
    <<"a","b","c","d","e","f","g","h","i","j","k","l","m",
      "n","o","p","q","r","s","t","u","v","w","x","y","z">>

UpperLetters ==
    <<"A","B","C","D","E","F","G","H","I","J","K","L","M",
      "N","O","P","Q","R","S","T","U","V","W","X","Y","Z">>

Digits == {"0","1","2","3","4","5","6","7","8","9"}

Range(f) == { f[i] : i \in DOMAIN f }

LowerSet == Range(LowerLetters)

UpperSet == Range(UpperLetters)

WordChars == LowerSet \cup UpperSet \cup Digits \cup {"_"}

IsLower(c) == c \in LowerSet

IsUpper(c) == c \in UpperSet

\* str.isspace for one character
IsSpace(c) == c \in {" ", "\t", "\n"}

\* regex class \w
IsWordChar(c) == c \in WordChars

\* regex class [.!?]
IsTerminator(c) == c \in {".", "!", "?"}

LowerChar(c) ==
    IF IsUpper(c)
    THEN LowerLetters[CHOOSE i \in DOMAIN UpperLetters : UpperLetters[i] = c]
    ELSE c

\* str.lower
Lower(s) == << >> \o [i \in 1..Len(s) |-> LowerChar(s[i])]

AllSpace(s) == \A i \in 1..Len(s) : IsSpace(s[i])

\* not s or len(s.strip()) == 0
IsBlank(s) == AllSpace(s)

\* str.strip
Strip(s) ==
    IF AllSpace(s) THEN << >>
    ELSE LET first == CHOOSE i \in 1..Len(s) :
                          ~IsSpace(s[i]) /\ \A j \in 1..(i-1) : IsSpace(s[j])
             last  == CHOOSE i \in 1..Len(s) :
                          ~IsSpace(s[i]) /\ \A j \in (i+1)..Len(s) : IsSpace(s[j])
         IN  SubSeq(s, first, last)

RECURSIVE SplitFrom(_, _, _)
\* str.split(): the maximal runs of non-whitespace characters from index i on,
\* cur being the run under construction
SplitFrom(s, i, cur) ==
    IF i > Len(s) THEN (IF cur = << >> THEN << >> ELSE <<cur>>)
    ELSE IF IsSpace(s[i])
         THEN (IF cur = << >> THEN << >> ELSE <<cur>>) \o SplitFrom(s, i + 1, << >>)
         ELSE SplitFrom(s, i + 1, Append(cur, s[i]))

Split(s) == SplitFrom(s, 1, << >>)

RECURSIVE Join(_)
\* ' '.join(tokens)
Join(tokens) ==
    IF tokens = << >> THEN << >>
    ELSE IF Len(tokens) = 1 THEN tokens[1]
    ELSE tokens[1] \o <<" ">> \o Join(Tail(tokens))

(***************************************************************************)
(* Regular-expression primitives used by AIDetector.                       *)
(***************************************************************************)
\* is position i of s (1..Len(s)) a \w character; outside the string it is not
WordAt(s, i) == i >= 1 /\ i <= Len(s) /\ IsWordChar(s[i])

\* \b between positions i-1 and i
Boundary(s, i) == WordAt(s, i - 1) # WordAt(s, i)

\* \b(m)\b matches s starting at position i
MatchAt(s, i, m) ==
    /\ i + Len(m) - 1 <= Len(s)
    /\ \A k \in 1..Len(m) : s[i + k - 1] = m[k]
    /\ Boundary(s, i)
    /\ Boundary(s, i + Len(m))

RECURSIVE FirstAlt(_, _, _, _)
\* the first alternative from index a on that matches s at position i, 0 if none
FirstAlt(s, i, alts, a) ==
    IF a > Len(alts) THEN 0
    ELSE IF MatchAt(s, i, alts[a]) THEN a
    ELSE FirstAlt(s, i, alts, a + 1)

RECURSIVE FindAllFrom(_, _, _)
\* len(re.findall(r'\b(m1|m2|...)\b', s)) over s[i..]: leftmost match, first
\* alternative that matches, scanning resumed after the match (every alternative
\* opens with \b, so a position that is no boundary is passed over at once)
FindAllFrom(s, alts, i) ==
    IF i > Len(s) THEN 0
    ELSE IF ~Boundary(s, i) THEN FindAllFrom(s, alts, i + 1)
    ELSE LET a == FirstAlt(s, i, alts, 1)
         IN  IF a = 0 THEN FindAllFrom(s, alts, i + 1)
             ELSE 1 + FindAllFrom(s, alts, i + Len(alts[a]))

FindAll(s, alts) == FindAllFrom(s, alts, 1)

RECURSIVE WordsFrom(_, _, _)
\* re.findall(r'\b\w+\b', s): the maximal runs of \w characters
WordsFrom(s, i, cur) ==
    IF i > Len(s) THEN (IF cur = << >> THEN << >> ELSE <<cur>>)
    ELSE IF IsWordChar(s[i])
         THEN WordsFrom(s, i + 1, Append(cur, s[i]))
         ELSE (IF cur = << >> THEN << >> ELSE <<cur>>) \o WordsFrom(s, i + 1, << >>)

Words(s) == WordsFrom(s, 1, << >>)

RECURSIVE SegmentsFrom(_, _, _)
\* re.split(r'[.!?]+', s): the pieces between runs of terminators (pieces may
\* be empty at either end of the string)
SegmentsFrom(s, i, cur) ==
    IF i > Len(s) THEN <<cur>>
    ELSE IF IsTerminator(s[i])
         THEN IF i > 1 /\ IsTerminator(s[i - 1])
              THEN SegmentsFrom(s, i + 1, cur)
              ELSE <<cur>> \o SegmentsFrom(s, i + 1, << >>)
         ELSE SegmentsFrom(s, i + 1, Append(cur, s[i]))

Segments(s) == SegmentsFrom(s, 1, << >>)

\* [s.strip() for s in re.split(r'[.!?]+', text) if s.strip()]
Sentences(s) ==
    LET segs == Segments(s)
    IN  SelectSeq([i \in 1..Len(segs) |-> Strip(segs[i])], LAMBDA x : x # << >>)

(***************************************************************************)
(* Exact arithmetic on fractions <<n, d>>, d > 0.                          *)
(***************************************************************************)
RECURSIVE GCD(_, _)
GCD(a, b) == IF b = 0 THEN a ELSE GCD(b, a % b)

Abs(x) == IF x < 0 THEN -x ELSE x

Frac(n, d) == LET g == GCD(Abs(n), d) IN <<n \div g, d \div g>>

FEq(x, y) == x[1] * y[2] = y[1] * x[2]

FLt(x, y) == x[1] * y[2] < y[1] * x[2]

FLe(x, y) == x[1] * y[2] <= y[1] * x[2]

FAdd(x, y) == Frac(x[1] * y[2] + y[1] * x[2], x[2] * y[2])

FSub(x, y) == Frac(x[1] * y[2] - y[1] * x[2], x[2] * y[2])

FMul(x, y) == Frac(x[1] * y[1], x[2] * y[2])

FMin(x, y) == IF FLt(y, x) THEN y ELSE x

FMax(x, y) == IF FLt(x, y) THEN y ELSE x

\* round(x * 1000) for a fraction x >= 0, a tie going to the even neighbour:
\* the value of Python's round(x * 100, 1), counted in tenths
RoundTenths(x) ==
    LET n == 1000 * x[1]
        d == x[2]
        q == n \div d
        r == n % d
    IN  IF 2 * r < d THEN q
        ELSE IF 2 * r > d THEN q + 1
        ELSE IF q % 2 = 0 THEN q ELSE q + 1

(***************************************************************************)
(* AIDetector (app/ai_detection.py).                                       *)
(***************************************************************************)
ai_patterns ==
    << \* however|moreover|furthermore|therefore|thus|consequently
       << <<"h","o","w","e","v","e","r">>,
          <<"m","o","r","e","o","v","e","r">>,
          <<"f","u","r","t","h","e","r","m","o","r","e">>,
          <<"t","h","e","r","e","f","o","r","e">>,
          <<"t","h","u","s">>,
          <<"c","o","n","s","e","q","u","e","n","t","l","y">> >>,
       \* in conclusion|to summarize|in summary|ultimately
       << <<"i","n"," ","c","o","n","c","l","u","s","i","o","n">>,
          <<"t","o"," ","s","u","m","m","a","r","i","z","e">>,
          <<"i","n"," ","s","u","m","m","a","r","y">>,
          <<"u","l","t","i","m","a","t","e","l","y">> >>,
       \* it is worth noting|it should be noted|research suggests
       << <<"i","t"," ","i","s"," ","w","o","r","t","h"," ","n","o","t","i","n","g">>,
          <<"i","t"," ","s","h","o","u","l","d"," ","b","e"," ","n","o","t","e","d">>,
          <<"r","e","s","e","a","r","c","h"," ","s","u","g","g","e","s","t","s">> >>,
       \* analysis|research|study|data|results|methodology
       << <<"a","n","a","l","y","s","i","s">>,
          <<"r","e","s","e","a","r","c","h">>,
          <<"s","t","u","d","y">>,
          <<"d","a","t","a">>,
          <<"r","e","s","u","l","t","s">>,
          <<"m","e","t","h","o","d","o","l","o","g","y">> >>,
       \* firstly|secondly|finally|in addition|furthermore
       << <<"f","i","r","s","t","l","y">>,
          <<"s","e","c","o","n","d","l","y">>,
          <<"f","i","n","a","l","l","y">>,
          <<"i","n"," ","a","d","d","i","t","i","o","n">>,
          <<"f","u","r","t","h","e","r","m","o","r","e">> >> >>

human_patterns ==
    << \* i think|i feel|in my opinion|i believe
       << <<"i"," ","t","h","i","n","k">>,
          <<"i"," ","f","e","e","l">>,
          <<"i","n"," ","m","y"," ","o","p","i","n","i","o","n">>,
          <<"i"," ","b","e","l","i","e","v","e">> >>,
       \* kind of|sort of|basically|literally|actually
       << <<"k","i","n","d"," ","o","f">>,
          <<"s","o","r","t"," ","o","f">>,
          <<"b","a","s","i","c","a","l","l","y">>,
          <<"l","i","t","e","r","a","l","l","y">>,
          <<"a","c","t","u","a","l","l","y">> >>,
       \* like|you know|well|anyway|honestly
       << <<"l","i","k","e">>,
          <<"y","o","u"," ","k","n","o","w">>,
          <<"w","e","l","l">>,
          <<"a","n","y","w","a","y">>,
          <<"h","o","n","e","s","t","l","y">> >>,
       \* maybe|probably|possibly|perhaps|seems
       << <<"m","a","y","b","e">>,
          <<"p","r","o","b","a","b","l","y">>,
          <<"p","o","s","s","i","b","l","y">>,
          <<"p","e","r","h","a","p","s">>,
          <<"s","e","e","m","s">> >>,
       \* gonna|wanna|gotta|kinda|sorta
       << <<"g","o","n","n","a">>,
          <<"w","a","n","n","a">>,
          <<"g","o","t","t","a">>,
          <<"k","i","n","d","a">>,
          <<"s","o","r","t","a">> >> >>

(***************************************************************************)
(* Python values handed to the entry points.                               *)
(***************************************************************************)
PyStr(s) == [kind |-> "str", s |-> s]

PyNone == [kind |-> "none", s |-> << >>]

\* an int, s its decimal digits
PyInt(s) == [kind |-> "int", s |-> s]

\* an object whose __str__ raises
PyBad == [kind |-> "bad", s |-> << >>]

\* the empty str, held by a variable before it is assigned
NoValue == PyStr(<< >>)

IsStr(v) == v.kind = "str"

\* str(v) raises
StrRaises(v) == v.kind = "bad"

\* str(v)
Str(v) == IF v.kind = "none" THEN <<"N","o","n","e">> ELSE v.s

(***************************************************************************)
(* The three scorers.  Each runs inside try/except: an argument that is no *)
(* str has no lower() and no regex search, the exception is caught and the *)
(* scorer returns 0.5.                                                     *)
(***************************************************************************)
\* sum(len(re.findall(pattern, text)) for pattern in patterns)
RECURSIVE SumMatches(_, _, _)
SumMatches(s, patterns, k) ==
    IF k > Len(patterns) THEN 0
    ELSE FindAll(s, patterns[k]) + SumMatches(s, patterns, k + 1)

Half == <<1, 2>>

_analyze_patterns(v) ==
    IF ~IsStr(v) THEN Half
    ELSE LET t             == Lower(v.s)
             ai_matches    == SumMatches(t, ai_patterns, 1)
             human_matches == SumMatches(t, human_patterns, 1)
             total_matches == ai_matches + human_matches
         IN  IF total_matches = 0 THEN Half
             ELSE FMax(<<0, 1>>, FMin(<<1, 1>>, Frac(ai_matches, total_matches)))

\* _analyze_structure with the first threshold inclusive
AnalyzeStructureInclusive(v) ==
    IF ~IsStr(v) THEN Half
    ELSE LET sentences == Sentences(v.s)
             words     == Words(Lower(v.s))
         IN  IF sentences = << >> \/ words = << >> THEN Half
             ELSE LET avg_sentence_length == <<Len(words), Len(sentences)>>
                  IN  IF FLe(avg_sentence_length, <<10, 1>>) THEN <<3, 10>>
                      ELSE IF FLt(avg_sentence_length, <<20, 1>>) THEN Half
                      ELSE <<7, 10>>

_analyze_structure(v) ==
    IF ~IsStr(v) THEN Half
    ELSE LET sentences == Sentences(v.s)
             words     == Words(Lower(v.s))
         IN  IF sentences = << >> \/ words = << >> THEN Half
             ELSE LET avg_sentence_length == <<Len(words), Len(sentences)>>
                  IN  IF FLt(avg_sentence_length, <<10, 1>>) THEN <<3, 10>>
                      ELSE IF FLt(avg_sentence_length, <<20, 1>>) THEN Half
                      ELSE <<7, 10>>

\* _analyze_style with the outer scores 0.1 and 0.9
AnalyzeStyleWide(v) ==
    IF ~IsStr(v) THEN Half
    ELSE LET words == Words(Lower(v.s))
         IN  IF words = << >> THEN Half
             ELSE LET unique_words   == Cardinality(Range(words))
                      word_diversity == <<unique_words, Len(words)>>
                  IN  IF FLt(word_diversity, <<4, 10>>) THEN <<1, 10>>
                      ELSE IF FLt(word_diversity, <<6, 10>>) THEN Half
                      ELSE <<9, 10>>

_analyze_style(v) ==
    IF ~IsStr(v) THEN Half
    ELSE LET words == Words(Lower(v.s))
         IN  IF words = << >> THEN Half
             ELSE LET unique_words   == Cardinality(Range(words))
                      word_diversity == <<unique_words, Len(words)>>
                  IN  IF FLt(word_diversity, <<4, 10>>) THEN <<3, 10>>
                      ELSE IF FLt(word_diversity, <<6, 10>>) THEN Half
                      ELSE <<7, 10>>

RECURSIVE FSum(_)
FSum(xs) == IF xs = << >> THEN <<0, 1>> ELSE FAdd(xs[1], FSum(Tail(xs)))

\* the variance over n instead of n - 1
VariancePopulation(xs) ==
    LET mean == FMul(FSum(xs), <<1, Len(xs)>>)
        sq   == [i \in 1..Len(xs) |->
                    FMul(FSub(xs[i], mean), FSub(xs[i], mean))]
    IN  FMul(FSum(sq), <<1, Len(xs)>>)

\* statistics.stdev(xs) ** 2: the sample variance, Len(xs) > 1
Variance(xs) ==
    LET mean == FMul(FSum(xs), <<1, Len(xs)>>)
        sq   == [i \in 1..Len(xs) |->
                    FMul(FSub(xs[i], mean), FSub(xs[i], mean))]
    IN  FMul(FSum(sq), <<1, Len(xs) - 1>>)

(***************************************************************************)
(* A confidence c in [0, 100] is in general irrational (100 - 50 * sqrt of *)
(* a rational variance).  It is held exactly as the fraction               *)
(*     v = ((100 - c) / 50) ^ 2,   0 <= v <= 4,                            *)
(* so c = 100 - 50 * sqrt(v): 100.0 is v = 0, 50.0 is v = 1, 0.0 is v = 4, *)
(* and c1 < c2 is v1 > v2.                                                 *)
(***************************************************************************)
\* the confidence with value c, c an integer in 0..100
Conf(c) == Frac((100 - c) * (100 - c), 2500)

\* confidence a < confidence b
ConfLt(a, b) == FLt(b, a)

\* max(0.0, min(100.0, 100 - std_dev * 50)) for std_dev = sqrt(variance)
ClampConf(variance) == FMin(variance, Conf(0))

\* _calculate_confidence with 100 - std_dev * 200
CalculateConfidenceSteep(scores) ==
    IF scores = << >> THEN Conf(0)
    ELSE IF Len(scores) > 1 THEN ClampConf(FMul(<<16, 1>>, Variance(scores)))
    ELSE Conf(50)

\* _calculate_confidence taking scores that collapse to one value for a
\* single measurement
CalculateConfidenceCollapsed(scores) ==
    IF scores = << >> THEN Conf(0)
    ELSE IF Cardinality(Range(scores)) > 1 THEN ClampConf(Variance(scores))
    ELSE Conf(50)

_calculate_confidence(scores) ==
    IF scores = << >> THEN Conf(0)
    ELSE IF Len(scores) > 1 THEN ClampConf(Variance(scores))
    ELSE Conf(50)

MsgLow == "Low confidence in analysis"

MsgHuman == "Likely human-written"

MsgUncertain == "Uncertain - could be either human or AI"

MsgAI == "Likely AI-generated"

\* _generate_message with the confidence test inclusive
GenerateMessageInclusive(p, c) ==
    IF ~ConfLt(Conf(50), c) THEN MsgLow
    ELSE IF p < 300 THEN MsgHuman
    ELSE IF p < 700 THEN MsgUncertain
    ELSE MsgAI

\* p in tenths of a percent, c a confidence
_generate_message(p, c) ==
    IF ConfLt(c, Conf(50)) THEN MsgLow
    ELSE IF p < 300 THEN MsgHuman
    ELSE IF p < 700 THEN MsgUncertain
    ELSE MsgAI

EmptyResult ==
    [ error |-> FALSE, ai_probability |-> 0, is_ai_generated |-> FALSE,
      confidence |-> Conf(0), message |-> "Empty text provided",
      details |-> [pattern_score |-> 0, structure_score |-> 0, style_score |-> 0] ]

FallbackResult ==
    [ error |-> TRUE, ai_probability |-> 500, is_ai_generated |-> FALSE,
      confidence |-> Conf(0), message |-> "Unable to determine",
      details |-> [pattern_score |-> 500, structure_score |-> 500,
                   style_score |-> 500] ]

\* the plain mean of the three scores
FinalScoreUnweighted(pattern_score, structure_score, style_score) ==
    FMul(FAdd(FAdd(pattern_score, structure_score), style_score), <<1, 3>>)

\* final_score = pattern * 0.4 + structure * 0.3 + style * 0.3
FinalScore(pattern_score, structure_score, style_score) ==
    FAdd(FAdd(FMul(pattern_score, <<4, 10>>), FMul(structure_score, <<3, 10>>)),
         FMul(style_score, <<3, 10>>))

Max(a, b) == IF a > b THEN a ELSE b

Min(a, b) == IF a < b THEN a ELSE b

\* the verdict with the boundary inclusive
IsAIGeneratedInclusive(ai_probability) == ai_probability >= 500

\* is_ai_generated = ai_probability > 50.0
IsAIGenerated(ai_probability) == ai_probability > 500

\* the blank test without strip()
IsEmpty(v) == Str(v) = << >>

\* not text or len(text.strip()) == 0, text already a str
BlankInput(v) == IsBlank(Str(v))

\* the scores before any scorer has run
NoScores == <<Half, Half, Half>>

\* one execution of analyze_text: the record it returns (ret), the scorers it
\* invoked (called) and its three local scores (scores)
AnalyzeRun(v) ==
    IF StrRaises(v)
    THEN [ret |-> FallbackResult, called |-> {}, components |-> NoScores]
    ELSE IF BlankInput(v)
    THEN [ret |-> EmptyResult, called |-> {}, components |-> NoScores]
    ELSE LET s               == PyStr(Str(v))
             pattern_score   == _analyze_patterns(s)
             structure_score == _analyze_structure(s)
             style_score     == _analyze_style(s)
             final_score     == FinalScore(pattern_score, structure_score, style_score)
             ai_probability  == Max(0, Min(1000, RoundTenths(final_score)))
             conf == _calculate_confidence(
                         <<pattern_score, structure_score, style_score>>)
         IN  [ ret |->
                 [ error |-> FALSE,
                   ai_probability |-> ai_probability,
                   is_ai_generated |-> IsAIGenerated(ai_probability),
                   confidence |-> conf,
                   message |-> _generate_message(ai_probability, conf),
                   details |-> [ pattern_score |-> RoundTenths(pattern_score),
                                 structure_score |-> RoundTenths(structure_score),
                                 style_score |-> RoundTenths(style_score) ] ],
               called |-> {"_analyze_patterns", "_analyze_structure",
                           "_analyze_style"},
               components |-> <<pattern_score, structure_score, style_score>> ]

analyze_text(v) == AnalyzeRun(v).ret

(***************************************************************************)
(* TextPreprocessor (app/preprocessing.py).  NLTK's word_tokenize, english *)
(* stopword list and WordNetLemmatizer are library code; they are modelled *)
(* by what they do on the modelled texts.  tok_ok and lem_ok say whether   *)
(* word_tokenize and lemmatize find their data at the call: when they do   *)
(* not they raise, and the wrappers catch the exception.                   *)
(***************************************************************************)
\* characters re.sub(r'[^a-zA-Z\s\.,!?]', '', text) keeps
Kept(c) == IsLower(c) \/ IsUpper(c) \/ IsSpace(c) \/ c \in {".", ",", "!", "?"}

\* re.sub(r'[^a-zA-Z\s\.,!?]', '', s)
RemoveSpecial(s) == SelectSeq(s, Kept)

RECURSIVE CollapseFrom(_, _)
\* re.sub(r'\s+', ' ', s): every run of whitespace becomes one space
CollapseFrom(s, i) ==
    IF i > Len(s) THEN << >>
    ELSE IF IsSpace(s[i])
         THEN (IF i > 1 /\ IsSpace(s[i - 1]) THEN << >> ELSE <<" ">>)
                  \o CollapseFrom(s, i + 1)
         ELSE <<s[i]>> \o CollapseFrom(s, i + 1)

Collapse(s) == CollapseFrom(s, 1)

\* clean_text: str(text) raising is caught and gives ""
clean_text(v) ==
    IF StrRaises(v) THEN << >>
    ELSE Strip(Collapse(RemoveSpecial(Lower(Str(v)))))

\* punctuation word_tokenize splits off as a token of its own
IsPunct(c) == c \in {".", ",", "!", "?", "#"}

RECURSIVE WordTokenizeFrom(_, _, _)
\* nltk word_tokenize: whitespace separates tokens, a punctuation character
\* is a token of its own
WordTokenizeFrom(s, i, cur) ==
    LET flush == IF cur = << >> THEN << >> ELSE <<cur>>
    IN  IF i > Len(s) THEN flush
        ELSE IF IsSpace(s[i]) THEN flush \o WordTokenizeFrom(s, i + 1, << >>)
        ELSE IF IsPunct(s[i])
             THEN flush \o <<(<<s[i]>>)>> \o WordTokenizeFrom(s, i + 1, << >>)
        ELSE WordTokenizeFrom(s, i + 1, Append(cur, s[i]))

word_tokenize(s) == WordTokenizeFrom(s, 1, << >>)

\* tokenize: [] when word_tokenize raises
tokenize(s, tok_ok) == IF tok_ok THEN word_tokenize(s) ELSE << >>

stop_words ==
    {
      <<"i">>, <<"m","e">>, <<"m","y">>, <<"w","e">>,
      <<"o","u","r">>, <<"y","o","u">>, <<"h","e">>, <<"s","h","e">>,
      <<"i","t">>, <<"i","t","s">>, <<"t","h","e","y">>, <<"t","h","e">>,
      <<"a">>, <<"a","n">>, <<"a","n","d">>, <<"b","u","t">>,
      <<"i","f">>, <<"o","r">>, <<"a","s">>, <<"o","f">>,
      <<"a","t">>, <<"b","y">>, <<"f","o","r">>, <<"w","i","t","h">>,
      <<"t","o">>, <<"f","r","o","m">>, <<"i","n">>, <<"o","n">>,
      <<"i","s">>, <<"a","r","e">>, <<"w","a","s">>, <<"b","e">>,
      <<"b","e","e","n">>, <<"d","o">>, <<"d","o","e","s">>, <<"d","i","d">>,
      <<"h","a","v","e">>, <<"h","a","s">>, <<"h","a","d">>, <<"t","h","i","s">>,
      <<"t","h","a","t">>, <<"t","h","e","s","e">>, <<"t","h","o","s","e">>, <<"n","o","t">>,
      <<"n","o">>, <<"s","o">>, <<"t","h","a","n">>, <<"t","o","o">>,
      <<"v","e","r","y">>, <<"c","a","n">>, <<"w","i","l","l">>, <<"j","u","s","t">>,
      <<"s","h","o","u","l","d">>, <<"n","o","w">>, <<"s">>, <<"t">>,
      <<"d">>, <<"m">>, <<"o">>, <<"y">> }

\* remove_stopwords
remove_stopwords(tokens) ==
    SelectSeq(tokens, LAMBDA tk : Lower(tk) \notin stop_words)

\* WordNetLemmatizer.lemmatize: plural nouns of the modelled texts go to
\* their singular, any other token is returned unchanged
Lemma(tk) ==
    IF tk = <<"c","a","t","s">> THEN <<"c","a","t">>
    ELSE IF tk = <<"d","o","g","s">> THEN <<"d","o","g">>
    ELSE tk

\* lemmatize: the tokens unchanged when the lemmatizer raises
lemmatize(tokens, lem_ok) ==
    IF lem_ok THEN << >> \o [i \in 1..Len(tokens) |-> Lemma(tokens[i])]
    ELSE tokens

\* preprocess without the last fallback to the original text
PreprocessNoFallback(v, tok_ok, lem_ok) ==
    IF ~IsStr(v) THEN v
    ELSE IF IsBlank(v.s) THEN v
    ELSE LET cleaned      == clean_text(v)
             cleaned_text == IF AllSpace(cleaned) THEN v.s ELSE cleaned
             tokens0      == tokenize(cleaned_text, tok_ok)
             tokens1      == IF Len(tokens0) = 0 THEN Split(cleaned_text) ELSE tokens0
             tokens2      == lemmatize(remove_stopwords(tokens1), lem_ok)
         IN  PyStr(Join(tokens2))

\* preprocess: the value returned.  A value that is no str fails the blank
\* test (None is falsy and raises ValueError, anything else has no strip());
\* the exception is caught and the argument itself is returned.
preprocess(v, tok_ok, lem_ok) ==
    IF ~IsStr(v) THEN v
    ELSE IF IsBlank(v.s) THEN v
    ELSE LET cleaned        == clean_text(v)
             cleaned_text   == IF AllSpace(cleaned) THEN v.s ELSE cleaned
             tokens0        == tokenize(cleaned_text, tok_ok)
             tokens1        == IF Len(tokens0) = 0 THEN Split(cleaned_text) ELSE tokens0
             tokens2        == lemmatize(remove_stopwords(tokens1), lem_ok)
             processed_text == Join(tokens2)
         IN  IF AllSpace(processed_text) THEN v ELSE PyStr(processed_text)

(***************************************************************************)
(* SimilarityAnalyzer (app/similarity.py).  A similarity that is a         *)
(* quotient by vector norms is the square root of a fraction q (1.0 is     *)
(* q = 1 and 0.0 is q = 0).  TF-IDF similarity is held as q, in exact      *)
(* arithmetic.  Cosine similarity is held as [sq |-> q, rounding |-> r],   *)
(* r saying on which side of sqrt(q) the double the code returns falls.    *)
(* Jaccard similarity is the fraction itself.                              *)
(***************************************************************************)
\* the call raised instead of returning
Raised == [raised |-> TRUE, value |-> <<0, 1>>]

Returned(x) == [raised |-> FALSE, value |-> x]

\* number of occurrences of w in words
Count(words, w) == Cardinality({ i \in 1..Len(words) : words[i] = w })

RECURSIVE DistinctFrom(_, _)
\* list(set(words)): each word once (Python leaves the order open; no score
\* depends on it)
DistinctFrom(words, i) ==
    IF i > Len(words) THEN << >>
    ELSE (IF \E j \in 1..(i - 1) : words[j] = words[i] THEN << >> ELSE <<words[i]>>)
             \o DistinctFrom(words, i + 1)

Vocabulary(words1, words2) == DistinctFrom(words1 \o words2, 1)

RECURSIVE DotFrom(_, _, _)
DotFrom(a, b, i) ==
    IF i > Len(a) THEN 0 ELSE a[i] * b[i] + DotFrom(a, b, i + 1)

\* np.dot(a, b)
Dot(a, b) == DotFrom(a, b, 1)

\* dot / (norm1 * norm2), 0.0 when a norm is 0: the fraction whose square
\* root it is
CosineOf(a, b) ==
    LET dot_product == Dot(a, b)
        norm1sq     == Dot(a, a)
        norm2sq     == Dot(b, b)
    IN  IF norm1sq = 0 \/ norm2sq = 0 THEN <<0, 1>>
        ELSE Frac(dot_product * dot_product, norm1sq * norm2sq)

\* intersection / union of the two word sets, 0.0 when the union is empty
JaccardOf(set1, set2) ==
    LET intersection == Cardinality(set1 \cap set2)
        union        == Cardinality(set1 \cup set2)
    IN  IF union = 0 THEN <<0, 1>> ELSE Frac(intersection, union)

calculate_jaccard_similarity(v1, v2, tok_ok, lem_ok) ==
    LET p1 == preprocess(v1, tok_ok, lem_ok)
        p2 == preprocess(v2, tok_ok, lem_ok)
    IN  IF ~IsStr(p1) \/ ~IsStr(p2) THEN Raised
        ELSE Returned(JaccardOf(Range(Split(p1.s)), Range(Split(p2.s))))

\* term-frequency vector of words over the vocabulary
CountVector(words, vocabulary) ==
    << >> \o [i \in 1..Len(vocabulary) |-> Count(words, vocabulary[i])]

\* Pairs <<n1, n2>> (n1 <= n2 <= 324, n1 * n2 a square) of squared norms of
\* parallel count vectors for which the double-precision quotient
\* dot / (sqrt(n1) * sqrt(n2)), exactly 1 in the reals, comes out above 1.0
\* (3 / (sqrt(3) * sqrt(3)) is 1.0000000000000002)
QuotientAboveOne ==
    {
      <<3, 3>>, <<3, 12>>, <<3, 48>>, <<3, 192>>, <<6, 6>>, <<6, 24>>,
      <<6, 96>>, <<6, 150>>, <<12, 12>>, <<12, 48>>, <<12, 192>>, <<13, 13>>,
      <<13, 52>>, <<13, 208>>, <<18, 18>>, <<18, 72>>, <<18, 98>>, <<18, 162>>,
      <<18, 242>>, <<18, 288>>, <<23, 23>>, <<23, 92>>, <<24, 24>>, <<24, 96>>,
      <<24, 150>>, <<26, 26>>, <<26, 104>>, <<29, 29>>, <<29, 116>>, <<29, 261>>,
      <<31, 31>>, <<31, 124>>, <<37, 37>>, <<37, 148>>, <<38, 38>>, <<38, 152>>,
      <<43, 43>>, <<43, 172>>, <<48, 48>>, <<48, 192>>, <<52, 52>>, <<52, 208>>,
      <<59, 59>>, <<59, 236>>, <<61, 61>>, <<61, 244>>, <<65, 65>>, <<65, 260>>,
      <<72, 72>>, <<72, 98>>, <<72, 162>>, <<72, 242>>, <<72, 288>>, <<73, 73>>,
      <<73, 292>>, <<89, 89>>, <<92, 92>>, <<95, 95>>, <<96, 96>>, <<96, 150>>,
      <<97, 97>>, <<98, 288>>, <<102, 102>>, <<104, 104>>, <<105, 105>>, <<111, 111>>,
      <<115, 115>>, <<116, 116>>, <<116, 261>>, <<119, 119>>, <<124, 124>>, <<127, 127>>,
      <<139, 139>>, <<148, 148>>, <<149, 149>>, <<152, 152>>, <<153, 153>>, <<162, 288>>,
      <<163, 163>>, <<172, 172>>, <<186, 186>>, <<192, 192>>, <<193, 193>>, <<197, 197>>,
      <<203, 203>>, <<208, 208>>, <<210, 210>>, <<211, 211>>, <<213, 213>>, <<217, 217>>,
      <<233, 233>>, <<236, 236>>, <<238, 238>>, <<242, 242>>, <<242, 288>>, <<244, 244>>,
      <<249, 249>>, <<255, 255>>, <<260, 260>>, <<261, 261>>, <<273, 273>>, <<278, 278>>,
      <<288, 288>>, <<291, 291>>, <<292, 292>>, <<295, 295>>, <<305, 305>>, <<306, 306>>,
      <<313, 313>>, <<314, 314>>, <<318, 318>>, <<319, 319>> }

\* the pairs for which it comes out below 1.0 (2 / (sqrt(2) * sqrt(2)) is
\* 0.9999999999999998)
QuotientBelowOne ==
    {
      <<2, 2>>, <<2, 8>>, <<2, 32>>, <<2, 50>>, <<2, 98>>, <<2, 128>>,
      <<2, 200>>, <<5, 5>>, <<5, 20>>, <<5, 45>>, <<5, 80>>, <<5, 125>>,
      <<5, 180>>, <<5, 320>>, <<7, 7>>, <<7, 28>>, <<7, 63>>, <<7, 112>>,
      <<7, 252>>, <<8, 8>>, <<8, 32>>, <<8, 50>>, <<8, 98>>, <<8, 128>>,
      <<8, 200>>, <<10, 10>>, <<10, 40>>, <<10, 90>>, <<10, 160>>, <<11, 275>>,
      <<15, 15>>, <<15, 60>>, <<15, 240>>, <<19, 19>>, <<19, 76>>, <<19, 171>>,
      <<19, 304>>, <<20, 20>>, <<20, 45>>, <<20, 80>>, <<20, 125>>, <<20, 180>>,
      <<20, 320>>, <<27, 75>>, <<27, 300>>, <<28, 28>>, <<28, 63>>, <<28, 112>>,
      <<28, 252>>, <<32, 32>>, <<32, 50>>, <<32, 98>>, <<32, 128>>, <<32, 200>>,
      <<35, 315>>, <<40, 40>>, <<40, 90>>, <<40, 160>>, <<44, 275>>, <<45, 45>>,
      <<45, 80>>, <<45, 125>>, <<45, 180>>, <<45, 245>>, <<45, 320>>, <<50, 50>>,
      <<50, 128>>, <<50, 200>>, <<51, 51>>, <<51, 204>>, <<54, 294>>, <<58, 58>>,
      <<58, 232>>, <<60, 60>>, <<60, 240>>, <<63, 63>>, <<63, 112>>, <<63, 252>>,
      <<66, 66>>, <<66, 264>>, <<75, 75>>, <<75, 108>>, <<75, 147>>, <<75, 243>>,
      <<75, 300>>, <<76, 76>>, <<76, 171>>, <<76, 304>>, <<77, 77>>, <<77, 308>>,
      <<78, 78>>, <<78, 312>>, <<80, 80>>, <<80, 125>>, <<80, 180>>, <<80, 320>>,
      <<82, 82>>, <<87, 87>>, <<90, 160>>, <<94, 94>>, <<98, 128>>, <<106, 106>>,
      <<107, 107>>, <<108, 300>>, <<109, 109>>, <<112, 112>>, <<112, 252>>, <<113, 113>>,
      <<117, 117>>, <<122, 122>>, <<123, 123>>, <<125, 125>>, <<125, 180>>, <<125, 245>>,
      <<125, 320>>, <<128, 128>>, <<128, 200>>, <<133, 133>>, <<140, 315>>, <<147, 300>>,
      <<160, 160>>, <<166, 166>>, <<170, 170>>, <<171, 304>>, <<176, 275>>, <<180, 180>>,
      <<180, 245>>, <<180, 320>>, <<185, 185>>, <<200, 200>>, <<204, 204>>, <<209, 209>>,
      <<216, 294>>, <<221, 221>>, <<229, 229>>, <<232, 232>>, <<234, 234>>, <<240, 240>>,
      <<241, 241>>, <<243, 300>>, <<245, 245>>, <<246, 246>>, <<247, 247>>, <<252, 252>>,
      <<254, 254>>, <<257, 257>>, <<262, 262>>, <<264, 264>>, <<269, 269>>, <<271, 271>>,
      <<275, 275>>, <<279, 279>>, <<281, 281>>, <<285, 285>>, <<290, 290>>, <<294, 294>>,
      <<300, 300>>, <<303, 303>>, <<304, 304>>, <<308, 308>>, <<309, 309>>, <<312, 312>>,
      <<315, 315>>, <<317, 317>>, <<320, 320>>, <<322, 322>> }

\* float(dot_product / (norm1 * norm2)) against its exact value, where the
\* exact value is 1: 1 above, -1 below, 0 equal.  Elsewhere the exact value
\* is 0 or well inside (0, 1) and the rounding is not tracked.  Squared
\* norms above 324 are outside the tables.
QuotientRounding(dot_product, norm1sq, norm2sq) ==
    IF norm1sq = 0 \/ norm2sq = 0 THEN 0
    ELSE IF dot_product * dot_product # norm1sq * norm2sq THEN 0
    ELSE LET pair == <<Min(norm1sq, norm2sq), Max(norm1sq, norm2sq)>>
         IN  IF pair[2] > 324 THEN CHOOSE r \in {} : TRUE
             ELSE IF pair \in QuotientAboveOne THEN 1
             ELSE IF pair \in QuotientBelowOne THEN -1
             ELSE 0

\* cosine of two count vectors as the float the code returns: sq is the
\* square of the exact quotient, rounding the side the float falls on
CosineFloat(a, b) ==
    [ sq       |-> CosineOf(a, b),
      rounding |-> QuotientRounding(Dot(a, b), Dot(a, a), Dot(b, b)) ]

CosineOfWords(words1, words2) ==
    LET vocabulary == Vocabulary(words1, words2)
    IN  CosineFloat(CountVector(words1, vocabulary), CountVector(words2, vocabulary))

calculate_cosine_similarity(v1, v2, tok_ok, lem_ok) ==
    LET p1 == preprocess(v1, tok_ok, lem_ok)
        p2 == preprocess(v2, tok_ok, lem_ok)
    IN  IF ~IsStr(p1) \/ ~IsStr(p2) THEN Raised
        ELSE Returned(CosineOfWords(Split(p1.s), Split(p2.s)))

\* the number 2 is divided by before the logarithm: 1, plus 1 for each text
\* that holds the word
IdfDivisor(w, words1, words2) ==
    1 + (IF Count(words1, w) > 0 THEN 1 ELSE 0) + (IF Count(words2, w) > 0 THEN 1 ELSE 0)

\* np.log(2 / k) in units of log(3/2), for the divisors 2 and 3 a word of the
\* vocabulary can have: log(2/2) = 0 and log(2/3) = -log(3/2)
LogTwoOver(k) == IF k = 2 THEN 0 ELSE -1

\* tf * idf vector of words over the vocabulary
TfidfVector(words, words1, words2, vocabulary) ==
    << >> \o [i \in 1..Len(vocabulary) |->
                Count(words, vocabulary[i])
                    * LogTwoOver(IdfDivisor(vocabulary[i], words1, words2))]

TfidfOfWords(words1, words2) ==
    LET vocabulary == Vocabulary(words1, words2)
    IN  CosineOf(TfidfVector(words1, words1, words2, vocabulary),
                 TfidfVector(words2, words1, words2, vocabulary))

calculate_tfidf_similarity(v1, v2, tok_ok, lem_ok) ==
    LET p1 == preprocess(v1, tok_ok, lem_ok)
        p2 == preprocess(v2, tok_ok, lem_ok)
    IN  IF ~IsStr(p1) \/ ~IsStr(p2) THEN Raised
        ELSE Returned(TfidfOfWords(Split(p1.s), Split(p2.s)))

\* the record of analyze before any score is known
NoSimilarity ==
    [ cosine_similarity  |-> [sq |-> <<0, 1>>, rounding |-> 0],
      jaccard_similarity |-> <<0, 1>>,
      tfidf_similarity   |-> <<0, 1>>,
      average_similarity |->
          [ terms   |-> <<[sq |-> <<0, 1>>, rounding |-> 0], (<<0, 1>>), (<<0, 1>>)>>,
            divisor |-> 3 ] ]

\* analyze: the record returned, unless one of the three calls raises.
\* average_similarity is the sum of the three terms over the divisor.
analyze(v1, v2, tok_ok, lem_ok) ==
    LET cosine  == calculate_cosine_similarity(v1, v2, tok_ok, lem_ok)
        jaccard == calculate_jaccard_similarity(v1, v2, tok_ok, lem_ok)
        tfidf   == calculate_tfidf_similarity(v1, v2, tok_ok, lem_ok)
    IN  IF cosine.raised \/ jaccard.raised \/ tfidf.raised
        THEN [raised |-> TRUE, value |-> NoSimilarity]
        ELSE Returned(
                 [ cosine_similarity  |-> cosine.value,
                   jaccard_similarity |-> jaccard.value,
                   tfidf_similarity   |-> tfidf.value,
                   average_similarity |->
                       [ terms   |-> <<cosine.value, jaccard.value, tfidf.value>>,
                         divisor |-> 3 ] ])

(***************************************************************************)
(* Report store (app/main.py): load_reports and save_report on the file    *)
(* REPORTS_FILE, called by request handlers on separate threads and        *)
(* serialised only by file_lock.  A stored report is [id, call]: call      *)
(* numbers the save_report call that passed it (its type, texts and result *)
(* are not looked at by the store; the date is left out).                  *)
(***************************************************************************)
Threads == 1..NumThreads

\* no thread holds file_lock
Free == 0

\* the store before the first save: no file
NoFile == [exists |-> FALSE, reports |-> << >>]

\* the store with a file that holds the empty list
EmptyFile == [exists |-> TRUE, reports |-> << >>]

\* max((r['id'] for r in reports), default=0)
MaxId(reports) ==
    IF Len(reports) = 0 THEN 0
    ELSE LET ids == { reports[i].id : i \in 1..Len(reports) }
         IN  CHOOSE m \in ids : \A n \in ids : n <= m

\* load_reports: what it returns; a missing file and a failed read or parse
\* both give []
LoadedReports(f, fails) ==
    IF f.exists /\ ~fails THEN f.reports ELSE << >>

\* the list save_report writes, without the id: every report gets id 1
AppendedNoId(reports, c) == Append(reports, [id |-> 1, call |-> c])

\* the list save_report writes: the loaded reports and the new one with the
\* next id
Appended(reports, c) == Append(reports, [id |-> MaxId(reports) + 1, call |-> c])

ReportsIdle ==
    /\ file = NoFile
    /\ lock = Free
    /\ tpc = [t \in Threads |-> "idle"]
    /\ loaded = [t \in Threads |-> << >>]
    /\ arg = [t \in Threads |-> 0]
    /\ readFailed = [t \in Threads |-> FALSE]
    /\ saved = << >>
    /\ calls = 0
    /\ faults = 0
    /\ overlapped = FALSE

\* a request handler calls save_report(report)
SaveReportCall(t) ==
    /\ tpc[t] = "idle"
    /\ calls < MaxCalls
    /\ calls' = calls + 1
    /\ arg' = [arg EXCEPT ![t] = calls + 1]
    /\ readFailed' = [readFailed EXCEPT ![t] = FALSE]
    /\ overlapped' = (overlapped \/ \E u \in Threads : u # t /\ tpc[u] # "idle")
    /\ tpc' = [tpc EXCEPT ![t] = "load_lock"]
    /\ UNCHANGED <<file, lock, loaded, saved, faults>>
    /\ UNCHANGED <<engineVars, uploadVars>>

\* load_reports, 'with file_lock:' entered
LoadAcquire(t) ==
    /\ tpc[t] = "load_lock"
    /\ lock = Free
    /\ lock' = t
    /\ tpc' = [tpc EXCEPT ![t] = "load_read"]
    /\ UNCHANGED <<file, loaded, arg, readFailed, saved, calls, faults, overlapped>>
    /\ UNCHANGED <<engineVars, uploadVars>>

\* load_reports, body of the with block and return: leaving the block
\* releases the lock, an exception of open or json.load is caught
LoadRead(t) ==
    /\ tpc[t] = "load_read"
    /\ \E fails \in BOOLEAN :
           /\ fails => (file.exists /\ faults < MaxFaults)
           /\ loaded' = [loaded EXCEPT ![t] = LoadedReports(file, fails)]
           /\ readFailed' = [readFailed EXCEPT ![t] = fails]
           /\ faults' = IF fails THEN faults + 1 ELSE faults
    /\ lock' = Free
    /\ tpc' = [tpc EXCEPT ![t] = "save_lock"]
    /\ UNCHANGED <<file, arg, saved, calls, overlapped>>
    /\ UNCHANGED <<engineVars, uploadVars>>

\* save_report, 'with file_lock:' entered
SaveAcquire(t) ==
    /\ tpc[t] = "save_lock"
    /\ lock = Free
    /\ lock' = t
    /\ tpc' = [tpc EXCEPT ![t] = "save_write"]
    /\ UNCHANGED <<file, loaded, arg, readFailed, saved, calls, faults, overlapped>>
    /\ UNCHANGED <<engineVars, uploadVars>>

\* save_report, body of the with block: id, append, the file rewritten with
\* the local list; the call returns
SaveWrite(t) ==
    /\ tpc[t] = "save_write"
    /\ file' = [exists |-> TRUE, reports |-> Appended(loaded[t], arg[t])]
    /\ saved' = Append(saved, arg[t])
    /\ lock' = Free
    /\ tpc' = [tpc EXCEPT ![t] = "idle"]
    /\ UNCHANGED <<loaded, arg, readFailed, calls, faults, overlapped>>
    /\ UNCHANGED <<engineVars, uploadVars>>

(***************************************************************************)
(* Uploads (app/file_handler.py) and the analyze_similarity request        *)
(* handler (app/main.py).  The upload folder maps the name of each file it *)
(* holds to the file's content; a content is the text read_file extracts,  *)
(* the empty content being one it extracts nothing from.                   *)
(***************************************************************************)
\* filenames a client sends: plain, with a directory part, disallowed, none
Filenames == {"a.txt", "../a.txt", "b.txt", "c.exe", ""}

\* FileHandler.allowed_file: the extension after the last dot is an allowed one
allowed_file(filename) == filename \in {"a.txt", "../a.txt", "b.txt"}

\* werkzeug secure_filename: the directory part is dropped
secure_filename(filename) == IF filename = "../a.txt" THEN "a.txt" ELSE filename

\* a FileStorage is falsy when it has no filename
IsFile(f) == f.filename # ""

\* save_file: the path returned and the folder afterwards; a file already at
\* the path is overwritten
save_file(folder, f) ==
    LET file_path == secure_filename(f.filename)
    IN  [ path   |-> file_path,
          folder |-> [p \in DOMAIN folder \cup {file_path} |->
                          IF p = file_path THEN f.content ELSE folder[p]] ]

\* read_file: None for a missing file or one without text
read_file(folder, file_path) ==
    IF file_path \notin DOMAIN folder THEN PyNone
    ELSE IF folder[file_path] = << >> THEN PyNone
    ELSE PyStr(folder[file_path])

\* delete_file: the folder afterwards
delete_file(folder, file_path) ==
    [p \in DOMAIN folder \ {file_path} |-> folder[p]]

\* Python truth value of a text read or received: None and "" are falsy
Truthy(v) == IsStr(v) /\ v.s # << >>

\* the empty upload folder
NoUploads == [p \in {} |-> << >>]

\* texts an analyze_similarity request obtains: status 400 or 500 when the
\* handler answers before the analysis, 0 when it goes on
Texts(st, t1, t2, folder, paths) ==
    [status |-> st, text1 |-> t1, text2 |-> t2, folder |-> folder, paths |-> paths]

\* analyze_similarity with file1 and file2 in request.files, up to the texts:
\* both uploads saved, then both read; the folder is the one the request
\* leaves behind (delete_file of both paths, by the handler or its finally)
TextsOfFiles(rq, folder) ==
    IF ~(IsFile(rq.file1) /\ IsFile(rq.file2)
           /\ allowed_file(rq.file1.filename) /\ allowed_file(rq.file2.filename))
    THEN Texts(400, NoValue, NoValue, folder, {})
    ELSE LET s1    == save_file(folder, rq.file1)
             s2    == save_file(s1.folder, rq.file2)
             t1    == read_file(s2.folder, s1.path)
             t2    == read_file(s2.folder, s2.path)
             clean == delete_file(delete_file(s2.folder, s1.path), s2.path)
         IN  Texts(IF Truthy(t1) /\ Truthy(t2) THEN 0 ELSE 500,
                   t1, t2, clean, {s1.path, s2.path})

\* analyze_similarity with a JSON body, up to the texts
TextsOfJson(rq, folder) ==
    IF ~rq.data.present THEN Texts(400, NoValue, NoValue, folder, {})
    ELSE Texts(0, PyStr(rq.data.text1), PyStr(rq.data.text2), folder, {})

TextsOfRequest(rq, folder) ==
    IF rq.kind = "files" THEN TextsOfFiles(rq, folder) ELSE TextsOfJson(rq, folder)

\* status of the response: an exception of analyze or of save_report is
\* caught by the handler and answered with 500
StatusOf(early, analysis_raised, st_ok) ==
    IF early # 0 THEN early
    ELSE IF analysis_raised \/ ~st_ok THEN 500
    ELSE 200

\* contents of uploaded files and texts of JSON bodies
UploadContents ==
    { << >>, <<"c","a","t","s"," ">>, <<"D","o","g"," ","d","o","g"," ">> }

NoData == [present |-> FALSE, text1 |-> << >>, text2 |-> << >>]

NoUpload == [filename |-> "", content |-> << >>]

\* requests: two uploads, or a JSON body with or without both texts
Requests ==
    { [kind |-> "files", file1 |-> [filename |-> n1, content |-> c1],
       file2 |-> [filename |-> n2, content |-> c2], data |-> NoData] :
          n1 \in Filenames, n2 \in Filenames,
          c1 \in UploadContents, c2 \in UploadContents }
    \cup
    { [kind |-> "json", file1 |-> NoUpload, file2 |-> NoUpload,
       data |-> [present |-> TRUE, text1 |-> c1, text2 |-> c2]] :
          c1 \in UploadContents, c2 \in UploadContents }
    \cup
    { [kind |-> "json", file1 |-> NoUpload, file2 |-> NoUpload, data |-> NoData] }

UploadsIdle ==
    /\ request = [kind |-> "json", file1 |-> NoUpload, file2 |-> NoUpload, data |-> NoData]
    /\ uploads = NoUploads
    /\ response = 0
    /\ savedPaths = {}
    /\ store_ok = TRUE

(***************************************************************************)
(* Input families.  A text is a concatenation of at most MaxPhrases        *)
(* phrases, repeated at most MaxRep times.                                 *)
(***************************************************************************)
RECURSIVE Concat(_)
Concat(ps) == IF ps = << >> THEN << >> ELSE ps[1] \o Concat(Tail(ps))

RECURSIVE Repeat(_, _)
Repeat(s, n) == IF n = 0 THEN << >> ELSE s \o Repeat(s, n - 1)

SeqsUpTo(S, n) == UNION { [1..k -> S] : k \in 0..n }

TextsOver(P) ==
    { Repeat(Concat(ps), n) : ps \in SeqsUpTo(P, MaxPhrases), n \in 1..MaxRep }

\* five words, four of them distinct
FiveWords == <<"b"," ","c"," ","e"," ","f"," ","b"," ">>

\* "#. ": a symbol and a sentence terminator
SymbolStop == <<"#", ".", " ">>

DetectPhrases ==
    { FiveWords,
      <<"b"," ","b"," ","c"," ","c"," ","e"," ">>,
      <<"h","o","w","e","v","e","r"," ">>,
      <<"F","u","r","t","h","e","r","m","o","r","e",","," ">>,
      <<"I"," ","t","h","i","n","k"," ","l","i","k","e","l","y"," ">>,
      SymbolStop,
      <<" ">> }

DetectInputs ==
    { PyStr(s) : s \in TextsOver(DetectPhrases) }
        \cup { PyNone, PyInt(<<"4","2">>), PyBad }

ProbabilityGrid == {0, 180, 299, 300, 301, 500, 699, 700, 701, 820, 1000}

ConfidenceGrid ==
    { Conf(0), Conf(49), Conf(50), Conf(51), Conf(100),
      <<1, 3>>, <<1, 25>>,  <<101, 100>>, <<99, 100>> }

\* phrases of the texts given to the preprocessor and the similarity analyzer:
\* a capitalised stopword, a plural, a word with punctuation, digits, bare
\* whitespace, a word twice in two cases
SimPhrases ==
    { <<"T","h","e"," ">>,
      <<"c","a","t","s"," ">>,
      <<"c","a","t",","," ">>,
      <<"4","2"," ">>,
      <<" ">>,
      <<"D","o","g"," ","d","o","g"," ">> }

SimInputs ==
    { PyStr(t) : t \in TextsOver(SimPhrases) } \cup {PyNone, PyInt(<<"4", "2">>)}

\* second texts a first text is compared with: itself, or one phrase
SecondInputs(v) == {v} \cup { PyStr(p) : p \in SimPhrases } \cup {PyNone}

(***************************************************************************)
(* Specifications.                                                         *)
(***************************************************************************)
\* one call of AIDetector.analyze_text or of one of its scorers
InitDetect ==
    /\ pc = "ready"
    /\ fn = ""
    /\ text \in DetectInputs
    /\ result = EmptyResult
    /\ called = {}
    /\ components = NoScores
    /\ score = Half
    /\ probability = 0
    /\ confidence = Conf(0)
    /\ message = ""
    /\ text2 = NoValue
    /\ punkt_ok = TRUE
    /\ wordnet_ok = TRUE
    /\ processed = NoValue
    /\ similarity = NoSimilarity
    /\ raised = FALSE
    /\ ReportsIdle
    /\ UploadsIdle

AnalyzeText ==
    /\ pc = "ready"
    /\ fn' = "analyze_text"
    /\ LET run == AnalyzeRun(text)
       IN  /\ result' = run.ret
           /\ called' = run.called
           /\ components' = run.components
    /\ pc' = "done"
    /\ UNCHANGED <<text, score, probability, confidence, message,
                 text2, punkt_ok, wordnet_ok, processed, similarity, raised,
                 reportVars, uploadVars>>

AnalyzePatterns ==
    /\ pc = "ready"
    /\ fn' = "_analyze_patterns"
    /\ score' = _analyze_patterns(text)
    /\ pc' = "done"
    /\ UNCHANGED <<text, result, called, components, probability, confidence, message,
                 text2, punkt_ok, wordnet_ok, processed, similarity, raised,
                 reportVars, uploadVars>>

AnalyzeStructure ==
    /\ pc = "ready"
    /\ fn' = "_analyze_structure"
    /\ score' = _analyze_structure(text)
    /\ pc' = "done"
    /\ UNCHANGED <<text, result, called, components, probability, confidence, message,
                 text2, punkt_ok, wordnet_ok, processed, similarity, raised,
                 reportVars, uploadVars>>

AnalyzeStyle ==
    /\ pc = "ready"
    /\ fn' = "_analyze_style"
    /\ score' = _analyze_style(text)
    /\ pc' = "done"
    /\ UNCHANGED <<text, result, called, components, probability, confidence, message,
                 text2, punkt_ok, wordnet_ok, processed, similarity, raised,
                 reportVars, uploadVars>>

NextDetect == AnalyzeText \/ AnalyzePatterns \/ AnalyzeStructure \/ AnalyzeStyle

SpecDetect == InitDetect /\ [][NextDetect]_vars

\* one direct call of AIDetector._generate_message
InitMessage ==
    /\ pc = "ready"
    /\ fn = ""
    /\ text = NoValue
    /\ result = EmptyResult
    /\ called = {}
    /\ components = NoScores
    /\ score = Half
    /\ probability \in ProbabilityGrid
    /\ confidence \in ConfidenceGrid
    /\ message = ""
    /\ text2 = NoValue
    /\ punkt_ok = TRUE
    /\ wordnet_ok = TRUE
    /\ processed = NoValue
    /\ similarity = NoSimilarity
    /\ raised = FALSE
    /\ ReportsIdle
    /\ UploadsIdle

GenerateMessage ==
    /\ pc = "ready"
    /\ fn' = "_generate_message"
    /\ message' = _generate_message(probability, confidence)
    /\ pc' = "done"
    /\ UNCHANGED <<text, result, called, components, score, probability, confidence,
                 text2, punkt_ok, wordnet_ok, processed, similarity, raised,
                 reportVars, uploadVars>>

NextMessage == GenerateMessage

SpecMessage == InitMessage /\ [][NextMessage]_vars

\* one call of TextPreprocessor.preprocess or of SimilarityAnalyzer.analyze
InitSimilarity ==
    /\ pc = "ready"
    /\ fn = ""
    /\ text \in SimInputs
    /\ text2 \in SecondInputs(text)
    /\ punkt_ok \in BOOLEAN
    /\ wordnet_ok \in BOOLEAN
    /\ processed = NoValue
    /\ similarity = NoSimilarity
    /\ raised = FALSE
    /\ ReportsIdle
    /\ UploadsIdle
    /\ result = EmptyResult
    /\ called = {}
    /\ components = NoScores
    /\ score = Half
    /\ probability = 0
    /\ confidence = Conf(0)
    /\ message = ""
    /\ ReportsIdle
    /\ UploadsIdle

Preprocess ==
    /\ pc = "ready"
    /\ fn' = "preprocess"
    /\ processed' = preprocess(text, punkt_ok, wordnet_ok)
    /\ pc' = "done"
    /\ UNCHANGED <<text, text2, punkt_ok, wordnet_ok, similarity, raised,
                   result, called, components, score, probability, confidence,
                   message, reportVars, uploadVars>>

Analyze ==
    /\ pc = "ready"
    /\ fn' = "analyze"
    /\ LET run == analyze(text, text2, punkt_ok, wordnet_ok)
       IN  /\ similarity' = run.value
           /\ raised' = run.raised
    /\ pc' = "done"
    /\ UNCHANGED <<text, text2, punkt_ok, wordnet_ok, processed,
                   result, called, components, score, probability, confidence,
                   message, reportVars, uploadVars>>

NextSimilarity == Preprocess \/ Analyze

SpecSimilarity == InitSimilarity /\ [][NextSimilarity]_vars

\* the engine variables when no engine call is under analysis
EngineIdle ==
    /\ pc = "ready"
    /\ fn = ""
    /\ text = NoValue
    /\ text2 = NoValue
    /\ punkt_ok = TRUE
    /\ wordnet_ok = TRUE
    /\ processed = NoValue
    /\ similarity = NoSimilarity
    /\ raised = FALSE
    /\ result = EmptyResult
    /\ called = {}
    /\ components = NoScores
    /\ score = Half
    /\ probability = 0
    /\ confidence = Conf(0)
    /\ message = ""

\* save_report calls of request handlers on NumThreads threads, from an empty
\* store
InitReports ==
    /\ EngineIdle
    /\ UploadsIdle
    /\ file \in {NoFile, EmptyFile}
    /\ lock = Free
    /\ tpc = [t \in Threads |-> "idle"]
    /\ loaded = [t \in Threads |-> << >>]
    /\ arg = [t \in Threads |-> 0]
    /\ readFailed = [t \in Threads |-> FALSE]
    /\ saved = << >>
    /\ calls = 0
    /\ faults = 0
    /\ overlapped = FALSE

NextReports ==
    \E t \in Threads :
        \/ SaveReportCall(t)
        \/ LoadAcquire(t)
        \/ LoadRead(t)
        \/ SaveAcquire(t)
        \/ SaveWrite(t)

SpecReports == InitReports /\ [][NextReports]_vars

\* one analyze_similarity request, alone on the server
InitUpload ==
    /\ pc = "ready"
    /\ fn = ""
    /\ text = NoValue
    /\ text2 = NoValue
    /\ punkt_ok \in BOOLEAN
    /\ wordnet_ok \in BOOLEAN
    /\ processed = NoValue
    /\ similarity = NoSimilarity
    /\ raised = FALSE
    /\ result = EmptyResult
    /\ called = {}
    /\ components = NoScores
    /\ score = Half
    /\ probability = 0
    /\ confidence = Conf(0)
    /\ message = ""
    /\ ReportsIdle
    /\ request \in Requests
    /\ uploads = NoUploads
    /\ response = 0
    /\ savedPaths = {}
    /\ store_ok \in BOOLEAN

\* the whole handler: uploads saved and read, texts compared, report stored,
\* uploads deleted.  A save_report that raises leaves the report file alone.
AnalyzeSimilarity ==
    /\ pc = "ready"
    /\ fn' = "analyze_similarity"
    /\ \E got \in {TextsOfRequest(request, uploads)} :
       \E run \in {IF got.status = 0
                    THEN analyze(got.text1, got.text2, punkt_ok, wordnet_ok)
                    ELSE Returned(NoSimilarity)} :
           /\ text' = got.text1
           /\ text2' = got.text2
           /\ similarity' = run.value
           /\ response' = StatusOf(got.status, run.raised, store_ok)
           /\ uploads' = got.folder
           /\ savedPaths' = got.paths
           /\ IF StatusOf(got.status, run.raised, store_ok) = 200
              THEN /\ file' = [exists  |-> TRUE,
                               reports |-> Appended(LoadedReports(file, FALSE), calls + 1)]
                   /\ saved' = Append(saved, calls + 1)
                   /\ calls' = calls + 1
              ELSE UNCHANGED <<file, saved, calls>>
    /\ pc' = "done"
    /\ UNCHANGED <<result, called, components, score, probability, confidence,
                   message, punkt_ok, wordnet_ok, processed, raised>>
    /\ UNCHANGED <<lock, tpc, loaded, arg, readFailed, faults, overlapped>>
    /\ UNCHANGED <<request, store_ok>>

NextUpload == AnalyzeSimilarity

SpecUpload == InitUpload /\ [][NextUpload]_vars

(***************************************************************************)
(* Properties of AIDetector.                                               *)
(***************************************************************************)
Analyzed == pc = "done" /\ fn = "analyze_text"

\* the call under analysis was of a non-blank text: it ran the scorers
Scored == Analyzed /\ called # {}

\* C1: whatever the input (blank, scored, or ending in the fallback record),
\* the returned ai_probability lies in [0, 100] and is_ai_generated is true
\* exactly when ai_probability > 50.0.
C1_ProbabilityAndVerdict ==
    Analyzed =>
        /\ result.ai_probability >= 0
        /\ result.ai_probability <= 1000
        /\ result.is_ai_generated = (result.ai_probability > 500)

\* a scored text whose probability is exactly 50.0, reported as not AI
C1_Witness ==
    /\ Scored
    /\ result.ai_probability = 500
    /\ ~result.is_ai_generated

\* C2: an empty or whitespace-only text yields the fixed empty-text record
\* (probability 0.0, confidence 0.0, not AI, detail scores 0.0) and no scorer
\* is invoked.
C2_BlankShortCircuit ==
    (Analyzed /\ IsStr(text) /\ AllSpace(text.s)) =>
        /\ result.ai_probability = 0
        /\ result.confidence = Conf(0)
        /\ ~result.is_ai_generated
        /\ result.details.pattern_score = 0
        /\ result.details.structure_score = 0
        /\ result.details.style_score = 0
        /\ ~result.error
        /\ called = {}

\* a text of two spaces has been analysed
C2_Witness ==
    /\ Analyzed
    /\ text = PyStr(<<" ", " ">>)
    /\ result.message = "Empty text provided"

\* C3: for a non-blank text ai_probability is 0.4*pattern + 0.3*structure
\* + 0.3*style, times 100, rounded to one decimal and kept within [0, 100]:
\* in tenths, the integer nearest to 400*pattern + 300*structure + 300*style.
C3_WeightedSum ==
    Scored =>
        LET p == components[1]
            s == components[2]
            t == components[3]
            d == p[2] * s[2] * t[2]
            n == 400 * p[1] * s[2] * t[2] + 300 * s[1] * p[2] * t[2]
                     + 300 * t[1] * p[2] * s[2]
        IN  /\ 2 * Abs(result.ai_probability * d - n) <= d
            /\ result.ai_probability >= 0
            /\ result.ai_probability <= 1000

\* a scored text where the rounding acts: pattern 2/3, structure 0.3,
\* style 0.7 gives 56.666... reported as 56.7
C3_Witness ==
    /\ Scored
    /\ FEq(components[1], <<2, 3>>)
    /\ result.ai_probability = 567

\* C4: component scores (0.5, 0.5, 0.5) give ai_probability 50.0, confidence
\* 100.0, is_ai_generated false and the "Uncertain" message.
C4_AllHalf ==
    (Scored /\ components = <<Half, Half, Half>>) =>
        /\ result.ai_probability = 500
        /\ result.confidence = Conf(100)
        /\ ~result.is_ai_generated
        /\ result.message = MsgUncertain

\* the ten-word, four-distinct-word sentence "b c e f b b c e f b " (no
\* marker, average sentence length 10, diversity 0.4) has been analysed
C4_Witness ==
    /\ Analyzed
    /\ text = PyStr(Repeat(FiveWords, 2))
    /\ components = <<Half, Half, Half>>
    /\ result.details = [pattern_score |-> 500, structure_score |-> 500,
                         style_score |-> 500]

\* the sample variance of three scores, from their pairwise differences
PairwiseVariance(x, y, z) ==
    FMul(FAdd(FAdd(FMul(FSub(x, y), FSub(x, y)), FMul(FSub(y, z), FSub(y, z))),
              FMul(FSub(x, z), FSub(x, z))),
         <<1, 6>>)

AllEqual(tr) == FEq(tr[1], tr[2]) /\ FEq(tr[2], tr[3])

\* C5 as stated: confidence is fixed at 50.0 when the three scores are one
\* value, and clamp(100 - 50 * stdDev, 0, 100) for every other scored text.
C5_CollapsedIsFifty ==
    Scored =>
        IF AllEqual(components)
        THEN result.confidence = Conf(50)
        ELSE FEq(result.confidence,
                 FMin(PairwiseVariance(components[1], components[2], components[3]),
                      <<4, 1>>))

\* C5 amended: for every scored text confidence is clamp(100 - 50 * stdDev,
\* 0, 100) of the three scores; three equal scores have stdDev 0 and give
\* confidence 100.0.
C5_ConfidenceFromDeviation ==
    Scored =>
        /\ FEq(result.confidence,
               FMin(PairwiseVariance(components[1], components[2], components[3]),
                    <<4, 1>>))
        /\ AllEqual(components) => result.confidence = Conf(100)

\* the text "#. " (one sentence, no word, no marker: three scores of 0.5) has
\* been analysed with confidence 100.0
C5_Witness ==
    /\ Analyzed
    /\ text = PyStr(SymbolStop)
    /\ AllEqual(components)
    /\ result.confidence = Conf(100)

\* C6: the message is "Low confidence in analysis" when confidence < 50
\* whatever the probability; otherwise "Likely human-written" below 30,
\* "Uncertain ..." from 30 to below 70, "Likely AI-generated" from 70 on.
C6_MessageTable ==
    (pc = "done" /\ fn = "_generate_message") =>
        LET low == FLt(<<1, 1>>, confidence)
        IN  /\ low => message = MsgLow
            /\ (~low /\ probability < 300) => message = MsgHuman
            /\ (~low /\ probability >= 300 /\ probability < 700)
                   => message = MsgUncertain
            /\ (~low /\ probability >= 700) => message = MsgAI

\* confidence 49 overrides a probability of 100.0
C6_Witness ==
    /\ pc = "done"
    /\ fn = "_generate_message"
    /\ confidence = Conf(49)
    /\ probability = 1000
    /\ message = MsgLow

\* the distinct markers of a list of patterns
Markers(patterns) == UNION { Range(patterns[k]) : k \in DOMAIN patterns }

\* number of whole-word occurrences in s of the markers of a list
Occurrences(s, patterns) ==
    Cardinality({ mi \in Markers(patterns) \X (1..Len(s)) :
                      MatchAt(s, mi[2], mi[1]) })

\* C7: the pattern score is aiMatches / (aiMatches + humanMatches), the two
\* counts being the case-insensitive whole-word occurrences of the AI markers
\* and of the human markers; it is 0.5 when both are zero, and lies in [0, 1].
C7_PatternScore ==
    (pc = "done" /\ fn = "_analyze_patterns" /\ IsStr(text)) =>
        LET ai    == Occurrences(Lower(text.s), ai_patterns)
            human == Occurrences(Lower(text.s), human_patterns)
        IN  /\ (ai + human = 0) => score = Half
            /\ (ai + human > 0) => FEq(score, <<ai, ai + human>>)
            /\ FLe(<<0, 1>>, score)
            /\ FLe(score, <<1, 1>>)

\* C8: the structure score is 0.3 / 0.5 / 0.7 for an average sentence length
\* below 10 / in [10, 20) / from 20 on, and 0.5 without sentence or word; the
\* style score is 0.3 / 0.5 / 0.7 for a diversity below 0.4 / in [0.4, 0.6) /
\* from 0.6 on, and 0.5 without word.
C8_ThresholdTables ==
    (pc = "done" /\ IsStr(text)) =>
        LET words     == Len(Words(Lower(text.s)))
            unique    == Cardinality(Range(Words(Lower(text.s))))
            sentences == Len(Sentences(text.s))
        IN  /\ fn = "_analyze_structure" =>
                score = IF sentences = 0 \/ words = 0 THEN <<1, 2>>
                        ELSE IF words < 10 * sentences THEN <<3, 10>>
                        ELSE IF words < 20 * sentences THEN <<1, 2>>
                        ELSE <<7, 10>>
            /\ fn = "_analyze_style" =>
                score = IF words = 0 THEN <<1, 2>>
                        ELSE IF 10 * unique < 4 * words THEN <<3, 10>>
                        ELSE IF 10 * unique < 6 * words THEN <<1, 2>>
                        ELSE <<7, 10>>

\* a single sentence of exactly twenty words has scored 0.7 for structure
C8_Witness ==
    /\ pc = "done"
    /\ fn = "_analyze_structure"
    /\ text = PyStr(Repeat(FiveWords, 4))
    /\ score = <<7, 10>>

\* C9: preprocess returns a non-empty string for every non-empty text, with
\* the tokenizer and the lemmatizer working or failing
C9_PreprocessNonEmpty ==
    (pc = "done" /\ fn = "preprocess" /\ IsStr(text) /\ text.s # << >>)
        => (IsStr(processed) /\ processed.s # << >>)

\* a text of stopwords only: every token is removed and the original text
\* is returned
C9_Witness ==
    /\ pc = "done" /\ fn = "preprocess"
    /\ text = PyStr(<<"T","h","e"," ">>)
    /\ remove_stopwords(tokenize(clean_text(text), punkt_ok)) = << >>
    /\ processed = text

\* C10: a non-empty text compared with itself has jaccard_similarity 1.0 and
\* cosine_similarity 1.0
C10_SelfSimilarity ==
    (pc = "done" /\ fn = "analyze" /\ IsStr(text) /\ text.s # << >> /\ text2 = text)
        => /\ ~raised
           /\ FEq(similarity.jaccard_similarity, <<1, 1>>)
           /\ FEq(similarity.cosine_similarity.sq, <<1, 1>>)
           /\ similarity.cosine_similarity.rounding = 0

\* words of the two preprocessed texts of the analyze call
Words1 == Split(preprocess(text, punkt_ok, wordnet_ok).s)

Words2 == Split(preprocess(text2, punkt_ok, wordnet_ok).s)

\* C11: in calculate_tfidf_similarity a term present in both texts has
\* weight 0 and a term present in exactly one text has a positive weight
C11_IdfWeight ==
    (pc = "done" /\ fn = "analyze" /\ ~raised)
        => \A w \in Range(Words1 \o Words2) :
               LET weight == LogTwoOver(IdfDivisor(w, Words1, Words2))
                   in1    == w \in Range(Words1)
                   in2    == w \in Range(Words2)
               IN  /\ (in1 /\ in2) => weight = 0
                   /\ (in1 # in2) => weight > 0

\* a fraction inside [0, 1]
InUnit(q) == FLe(<<0, 1>>, q) /\ FLe(q, <<1, 1>>)

\* C12: the record analyze returns has average_similarity = (cosine_similarity
\* + jaccard_similarity + tfidf_similarity) / 3 of its own three sub-scores,
\* and each of the four values lies in [0, 1]
C12_MeanInUnit ==
    (pc = "done" /\ fn = "analyze" /\ ~raised)
        => /\ similarity.average_similarity.terms =
                  << similarity.cosine_similarity, similarity.jaccard_similarity,
                     similarity.tfidf_similarity >>
           /\ similarity.average_similarity.divisor = 3
           /\ InUnit(similarity.cosine_similarity.sq)
           /\ FEq(similarity.cosine_similarity.sq, <<1, 1>>)
                  => similarity.cosine_similarity.rounding <= 0
           /\ InUnit(similarity.jaccard_similarity)
           /\ InUnit(similarity.tfidf_similarity)

\* C13: neither AIDetector.analyze_text nor SimilarityAnalyzer.analyze lets
\* an exception out, whatever the values passed (None and numbers included)
C13_NoException ==
    (pc = "done" /\ fn \in {"analyze_text", "analyze"}) => ~raised

\* every thread is outside save_report
AllIdle == \A t \in Threads : tpc[t] = "idle"

\* C14: from an empty store, after n save_report calls that do not overlap
\* (and whose reads succeed) the file holds exactly the n reports passed, in
\* the order of the calls, with ids 1..n; a report once stored stays as it is
C14_SequentialIds ==
    (~overlapped /\ faults = 0)
        => /\ Len(file.reports) = Len(saved)
           /\ \A i \in 1..Len(saved) : file.reports[i] = [id |-> i, call |-> saved[i]]

\* two calls, one after the other, have returned
C14_Witness ==
    /\ ~overlapped /\ faults = 0 /\ AllIdle
    /\ Len(saved) >= 2
    /\ file.reports[2] = [id |-> 2, call |-> saved[2]]

\* C15: whatever the interleaving of concurrent save_report calls, every
\* report of a call that returned is in the file afterwards, and the stored
\* reports have pairwise distinct ids
C15_ConcurrentSaves ==
    (faults = 0 /\ AllIdle)
        => /\ \A k \in 1..Len(saved) :
                  \E i \in 1..Len(file.reports) : file.reports[i].call = saved[k]
           /\ \A i, j \in 1..Len(file.reports) :
                  i # j => file.reports[i].id # file.reports[j].id

\* C16: a save_report call whose read of the report file failed leaves every
\* report stored before it in the file
C16_FailedReadKeepsReports ==
    [][ \A t \in Threads :
            (tpc[t] = "save_write" /\ tpc'[t] = "idle" /\ readFailed[t] /\ ~overlapped)
                => \A i \in 1..Len(file.reports) :
                       \E j \in 1..Len(file'.reports) :
                           file'.reports[j] = file.reports[i] ]_vars

\* C17: analyze_similarity with two uploads compares the content of file1
\* with the content of file2, also when both carry the same sanitized
\* filename, and leaves none of the files it saved in the upload folder
C17_UploadsKeptApart ==
    (pc = "done" /\ fn = "analyze_similarity" /\ request.kind = "files")
        => /\ response = 200
                  => /\ text = PyStr(request.file1.content)
                     /\ text2 = PyStr(request.file2.content)
           /\ \A p \in savedPaths : p \notin DOMAIN uploads

\* C18: for a non-blank text every token of the string preprocess returns is
\* lowercase, and the text in lower case gives the same tokens
C18_LowercaseTokens ==
    (pc = "done" /\ fn = "preprocess" /\ IsStr(text) /\ ~IsBlank(text.s))
        => /\ \A k \in 1..Len(Split(processed.s)) :
                  Lower(Split(processed.s)[k]) = Split(processed.s)[k]
           /\ Split(preprocess(PyStr(Lower(text.s)), punkt_ok, wordnet_ok).s)
                  = Split(processed.s)

\* C19: for a non-blank text 100 - 50 * stdDev of the three scores is at
\* least 50 (the variance is at most 1), it is the confidence reported
\* without clamping, and the message is never "Low confidence in analysis"
C19_ConfidenceAtLeastFifty ==
    Scored =>
        /\ FLe(PairwiseVariance(components[1], components[2], components[3]), <<1, 1>>)
        /\ FEq(result.confidence,
               PairwiseVariance(components[1], components[2], components[3]))
        /\ ~ConfLt(result.confidence, Conf(50))
        /\ result.message # MsgLow

\* a text whose scores differ enough for a confidence below 90
C19_Witness ==
    /\ Scored
    /\ ConfLt(result.confidence, Conf(90))
    /\ result.message # MsgLow

\* C20: for a non-blank text the structure and style scores are 0.3, 0.5 or
\* 0.7, the pattern score is in [0, 1] and ai_probability is in [18.0, 82.0]
C20_ProbabilityBand ==
    Scored =>
        /\ InUnit(components[1])
        /\ components[2] \in {<<3, 10>>, <<1, 2>>, <<7, 10>>}
        /\ components[3] \in {<<3, 10>>, <<1, 2>>, <<7, 10>>}
        /\ result.ai_probability >= 180
        /\ result.ai_probability <= 820

\* a text at the upper end of the band
C20_Witness ==
    /\ Scored
    /\ components[1] = <<1, 1>>
    /\ result.ai_probability >= 700

====
